---------------------------- MODULE Spec2Model ----------------------------
(***************************************************************************)
(* Response decoding layer of nuwe_cmadaas.music.data.                     *)
(*                                                                         *)
(* One response object (Array2D, DataBlock, GridArray2D, FilesInfo,        *)
(* GridVector2D or GridScalar2D) is constructed and then loaded from       *)
(* parsed protobuf envelopes.  A Python attribute that may be None is an   *)
(* option: <<>> is None and <<v>> is the value v.  Floats are fixed-point  *)
(* integers (tenths of a degree).  A call either returns or raises; what   *)
(* it assigned before raising stays assigned.                              *)
(***************************************************************************)
EXTENDS Integers, Sequences, FiniteSets, TLC

VARIABLES
    kind,    \* class of the response object
    obj,     \* the attributes of the response object
    env,     \* the parsed protobuf message handed to the last load, as an option
    op,      \* the last operation applied to the object
    status,  \* "new", "ok", or the name of the exception the last call raised
    loads,   \* number of load calls applied to the object since its construction
    out      \* the result of the last to_xarray call, as an option

vars == <<kind, obj, env, op, status, loads, out>>

---------------------------------------------------------------------------
(* Bounds of the model *)

MaxDim == 2

MaxLen == 4

MaxLoads == 2

---------------------------------------------------------------------------
(* Options, results *)

None == <<>>

Some(v) == <<v>>

IsNone(o) == o = <<>>

Val(o) == o[1]

Returned(self) == [obj |-> self, status |-> "ok"]

Raised(self, exc) == [obj |-> self, status |-> exc]

Abs(x) == IF x < 0 THEN -x ELSE x

---------------------------------------------------------------------------
(* Python and numpy primitives used by the decoders *)

\* int(a / b) for b # 0: true division, then truncation toward zero.
IntTrueDiv(a, b) ==
    LET q == Abs(a) \div Abs(b)
    IN  IF (a < 0) = (b < 0) THEN q ELSE -q

\* An ndarray of shape (R, C) holding flat in Fortran (column-major) order.
NdArrayColMajor(flat, R, C) ==
    [shape |-> <<R, C>>,
     rows  |-> [r \in 1..R |-> [c \in 1..C |-> flat[(c - 1) * R + r]]]]

\* An ndarray of shape (R, C) holding flat in C (row-major) order.
NdArray(flat, R, C) ==
    [shape |-> <<R, C>>,
     rows  |-> [r \in 1..R |-> [c \in 1..C |-> flat[(r - 1) * C + c]]]]

\* np.array(flat).reshape([r, c]) that keeps the first r*c elements and
\* never complains about the size.
np_reshape_unchecked(flat, r, c) ==
    IF r < 0 \/ c < 0 \/ r * c > Len(flat)
    THEN [ok |-> FALSE, val |-> NdArray(<<>>, 0, 0)]
    ELSE [ok |-> TRUE, val |-> NdArray(flat, r, c)]

\* np.array(flat).reshape([r, c], order="F")
np_reshape_colmajor(flat, r, c) ==
    IF r < 0 \/ c < 0 \/ r * c # Len(flat)
    THEN [ok |-> FALSE, val |-> NdArray(<<>>, 0, 0)]
    ELSE [ok |-> TRUE, val |-> NdArrayColMajor(flat, r, c)]

\* np.array(flat).reshape([r, c]).  A negative entry is the one unknown
\* dimension, inferred from the size; two of them, or a size that does not
\* fit, raise ValueError.  (The decoders pass one negative entry alone only
\* as -1; any other negative entry comes with a second one.)
np_reshape(flat, r, c) ==
    LET n    == Len(flat)
        fail == [ok |-> FALSE, val |-> NdArray(<<>>, 0, 0)]
    IN  IF r < 0 /\ c < 0 THEN fail
        ELSE IF r < 0
        THEN IF c = 0 \/ n % c # 0 THEN fail
             ELSE [ok |-> TRUE, val |-> NdArray(flat, n \div c, c)]
        ELSE IF c < 0
        THEN IF r = 0 \/ n % r # 0 THEN fail
             ELSE [ok |-> TRUE, val |-> NdArray(flat, r, n \div r)]
        ELSE IF r * c # n THEN fail
        ELSE [ok |-> TRUE, val |-> NdArray(flat, r, c)]

---------------------------------------------------------------------------
(* RequestInfo *)

RequestInfo_load_protobuf(request_info) ==
    [error_code       |-> request_info.errorCode,
     error_message    |-> request_info.errorMessage,
     request_elements |-> request_info.requestElems,
     request_params   |-> request_info.requestParams,
     request_time     |-> request_info.requestTime,
     response_time    |-> request_info.responseTime,
     row_count        |-> request_info.rowCount,
     take_time        |-> request_info.takeTime,
     col_count        |-> request_info.colCount]

RequestInfo_create_from_protobuf(request_info) ==
    RequestInfo_load_protobuf(request_info)

---------------------------------------------------------------------------
(* Array2D *)

Array2D_init ==
    [request |-> None, data |-> None, element_names |-> None,
     row_count |-> 0, col_count |-> 0]

\* the assertion left out
Array2D_col_count_asserted_never(col_count, declared) == TRUE

\* assert(self.col_count == ret_array_2d.request.colCount)
Array2D_col_count_asserted(col_count, declared) == col_count = declared

Array2D_load_from_protobuf_object(self, ret_array_2d) ==
    LET s1 == [self EXCEPT
                 !.request = Some(RequestInfo_create_from_protobuf(ret_array_2d.request)),
                 !.element_names = Some(ret_array_2d.elementNames)]
    IN  IF Val(s1.request).error_code # 0 THEN Returned(s1)
        ELSE
        LET s2 == [s1 EXCEPT !.row_count = ret_array_2d.request.rowCount]
            total_count == Len(ret_array_2d.data)
        IN  IF s2.row_count = 0 THEN Raised(s2, "ZeroDivisionError")
            ELSE
            LET s3 == [s2 EXCEPT !.col_count = IntTrueDiv(total_count, s2.row_count)]
                a  == np_reshape(ret_array_2d.data, s3.row_count, s3.col_count)
            IN  IF ~Array2D_col_count_asserted(s3.col_count, ret_array_2d.request.colCount)
                THEN Raised(s3, "AssertionError")
                ELSE IF ~a.ok THEN Raised(s3, "ValueError")
                ELSE Returned([s3 EXCEPT !.data = Some(a.val)])

---------------------------------------------------------------------------
(* DataBlock *)

DataBlock_init == [request |-> None, data_name |-> None, data |-> None]

DataBlock_load_from_protobuf_object(self, ret_data_block) ==
    Returned([self EXCEPT
                !.request = Some(RequestInfo_create_from_protobuf(ret_data_block.request)),
                !.data_name = Some(ret_data_block.dataName),
                !.data = Some(ret_data_block.byteArray)])

---------------------------------------------------------------------------
(* FileInfo, FilesInfo *)

FileInfo_create_from_protobuf(pb_file_info) ==
    [file_name    |-> pb_file_info.fileName,
     save_path    |-> pb_file_info.savePath,
     suffix       |-> pb_file_info.suffix,
     size         |-> pb_file_info.size,
     file_url     |-> pb_file_info.fileUrl,
     image_base64 |-> pb_file_info.imgBase64,
     attributes   |-> pb_file_info.attributes]

FilesInfo_init == [request |-> None, files_info |-> None]

FilesInfo_load_from_protobuf_object(self, ret_files_info) ==
    LET s1 == [self EXCEPT
                 !.request = Some(RequestInfo_create_from_protobuf(ret_files_info.request))]
    IN  IF Val(s1.request).error_code # 0 THEN Returned(s1)
        ELSE Returned([s1 EXCEPT !.files_info =
                 Some([i \in 1..Len(ret_files_info.fileInfos) |->
                          FileInfo_create_from_protobuf(ret_files_info.fileInfos[i])])])

---------------------------------------------------------------------------
(* Coordinate axes *)

\* [start + i * step for i in range(count)]
SynthAxis(start, step, count) ==
    [i \in 1..(IF count > 0 THEN count ELSE 0) |-> start + (i - 1) * step]

\* np.linspace(start, end, count, endpoint=True), for count >= 0
Linspace(start, end, count) ==
    [i \in 1..count |->
        IF count = 1 THEN start
        ELSE start + ((i - 1) * (end - start)) \div (count - 1)]

---------------------------------------------------------------------------
(* GridArray2D *)

GridArray2D_init ==
    [request |-> None, data |-> None,
     start_lat |-> 0, start_lon |-> 0, end_lat |-> 0, end_lon |-> 0,
     lat_count |-> 0, lon_count |-> 0, lon_step |-> 0, lat_step |-> 0,
     lats |-> None, lons |-> None, units |-> "", user_element_name |-> ""]

\* A repeated protobuf field is a (possibly empty) container, never None.
RepeatedIsNotNone(repeated) == TRUE

GridArray2D_lats(self, ret_grid_array_2d) ==
    IF RepeatedIsNotNone(ret_grid_array_2d.lats)
    THEN ret_grid_array_2d.lats
    ELSE SynthAxis(self.start_lat, self.lat_step, self.lat_count)

\* the longitude axis read from the latitude list
GridArray2D_lons_from_lats(self, ret_grid_array_2d) ==
    IF RepeatedIsNotNone(ret_grid_array_2d.lats)
    THEN ret_grid_array_2d.lats
    ELSE SynthAxis(self.start_lon, self.lon_step, self.lon_count)

GridArray2D_lons(self, ret_grid_array_2d) ==
    IF RepeatedIsNotNone(ret_grid_array_2d.lons)
    THEN ret_grid_array_2d.lons
    ELSE SynthAxis(self.start_lon, self.lon_step, self.lon_count)

\* row_count = self.lat_count, as the other grid classes have it
GridArray2D_row_count_from_lat_count(self) == self.lat_count

\* row_count = self.request.row_count
GridArray2D_row_count(self) == Val(self.request).row_count

GridArray2D_load_from_protobuf_object(self, ret_grid_array_2d) ==
    LET s1 == [self EXCEPT
                 !.request = Some(RequestInfo_create_from_protobuf(ret_grid_array_2d.request))]
    IN  IF Val(s1.request).error_code # 0 THEN Returned(s1)
        ELSE
        LET s2 == [s1 EXCEPT
                     !.start_lat = ret_grid_array_2d.startLat,
                     !.start_lon = ret_grid_array_2d.startLon,
                     !.end_lat   = ret_grid_array_2d.endLat,
                     !.end_lon   = ret_grid_array_2d.endLon,
                     !.lat_count = ret_grid_array_2d.latCount,
                     !.lon_count = ret_grid_array_2d.lonCount,
                     !.lon_step  = ret_grid_array_2d.lonStep,
                     !.lat_step  = ret_grid_array_2d.latStep]
            s3 == [s2 EXCEPT
                     !.lats = Some(GridArray2D_lats(s2, ret_grid_array_2d)),
                     !.lons = Some(GridArray2D_lons(s2, ret_grid_array_2d)),
                     !.units = ret_grid_array_2d.units,
                     !.user_element_name = ret_grid_array_2d.userEleName]
            row_count  == GridArray2D_row_count(s3)
            data_count == Len(ret_grid_array_2d.data)
        IN  IF row_count = 0 THEN Raised(s3, "ZeroDivisionError")
            ELSE
            LET col_count == IntTrueDiv(data_count, row_count)
                a == np_reshape(ret_grid_array_2d.data, row_count, col_count)
            IN  IF ~a.ok THEN Raised(s3, "ValueError")
                ELSE Returned([s3 EXCEPT !.data = Some(a.val)])

\* xr.DataArray(data, dims=("latitude", "longitude"), coords=...): the
\* coordinate of each dimension must be as long as the dimension.
GridArray2D_to_xarray(self) ==
    IF IsNone(self.lats) \/ IsNone(self.lons)
    THEN [status |-> "TypeError", field |-> None]
    ELSE IF (Val(self.lats) = <<>> /\ self.lat_count < 0)
            \/ (Val(self.lons) = <<>> /\ self.lon_count < 0)
    THEN [status |-> "ValueError", field |-> None]
    ELSE
    LET lats == IF Len(Val(self.lats)) > 0 THEN Val(self.lats)
                ELSE Linspace(self.start_lat, self.end_lat, self.lat_count)
        lons == IF Len(Val(self.lons)) > 0 THEN Val(self.lats)
                ELSE Linspace(self.start_lon, self.end_lon, self.lon_count)
        data == Val(self.data)
    IN  IF data.shape # <<Len(lats), Len(lons)>>
        THEN [status |-> "ValueError", field |-> None]
        ELSE [status |-> "ok",
              field  |-> Some([dims      |-> <<"latitude", "longitude">>,
                               latitude  |-> lats,
                               longitude |-> lons,
                               data      |-> data,
                               units     |-> self.units,
                               name      |-> self.user_element_name])]

---------------------------------------------------------------------------
(* GridVector2D *)

GridVector2D_init ==
    [request |-> None, u_data |-> None, v_data |-> None,
     start_lat |-> 0, start_lon |-> 0, end_lat |-> 0, end_lon |-> 0,
     lat_count |-> 0, lon_count |-> 0, lon_step |-> 0, lat_step |-> 0,
     lats |-> None, lons |-> None, u_element_name |-> "", v_element_name |-> ""]

GridVector2D_load_from_protobuf_object(self, ret_grid_vector_2d) ==
    LET s1 == [self EXCEPT
                 !.request = Some(RequestInfo_create_from_protobuf(ret_grid_vector_2d.request))]
    IN  IF Val(s1.request).error_code # 0 THEN Returned(s1)
        ELSE
        LET s2 == [s1 EXCEPT
                     !.start_lat = ret_grid_vector_2d.startLat,
                     !.start_lon = ret_grid_vector_2d.startLon,
                     !.end_lat   = ret_grid_vector_2d.endLat,
                     !.end_lon   = ret_grid_vector_2d.endLon,
                     !.lat_count = ret_grid_vector_2d.latCount,
                     !.lon_count = ret_grid_vector_2d.lonCount,
                     !.lon_step  = ret_grid_vector_2d.lonStep,
                     !.lat_step  = ret_grid_vector_2d.latStep,
                     !.lats = Some(ret_grid_vector_2d.lats),
                     !.lons = Some(ret_grid_vector_2d.lons),
                     !.u_element_name = ret_grid_vector_2d.u_EleName,
                     !.v_element_name = ret_grid_vector_2d.v_EleName]
            row_count == s2.lat_count
            col_count == s2.lon_count
            u == np_reshape(ret_grid_vector_2d.u_datas, row_count, col_count)
            v == np_reshape(ret_grid_vector_2d.v_data2, row_count, col_count)
        IN  IF ~u.ok THEN Raised(s2, "ValueError")
            ELSE IF ~v.ok THEN Raised([s2 EXCEPT !.u_data = Some(u.val)], "ValueError")
            ELSE Returned([s2 EXCEPT !.u_data = Some(u.val), !.v_data = Some(v.val)])

---------------------------------------------------------------------------
(* GridScalar2D *)

GridScalar2D_init ==
    [request |-> None, data |-> None,
     start_lat |-> 0, start_lon |-> 0, end_lat |-> 0, end_lon |-> 0,
     lat_count |-> 0, lon_count |-> 0, lon_step |-> 0, lat_step |-> 0,
     lats |-> None, lons |-> None, units |-> "", user_element_name |-> ""]

GridScalar2D_load_from_protobuf_object(self, ret_grid_scalar_2d) ==
    LET s1 == [self EXCEPT
                 !.request = Some(RequestInfo_create_from_protobuf(ret_grid_scalar_2d.request))]
    IN  IF Val(s1.request).error_code # 0 THEN Returned(s1)
        ELSE
        LET s2 == [s1 EXCEPT
                     !.start_lat = ret_grid_scalar_2d.startLat,
                     !.start_lon = ret_grid_scalar_2d.startLon,
                     !.end_lat   = ret_grid_scalar_2d.endLat,
                     !.end_lon   = ret_grid_scalar_2d.endLon,
                     !.lat_count = ret_grid_scalar_2d.latCount,
                     !.lon_count = ret_grid_scalar_2d.lonCount,
                     !.lon_step  = ret_grid_scalar_2d.lonStep,
                     !.lat_step  = ret_grid_scalar_2d.latStep,
                     !.lats = Some(ret_grid_scalar_2d.lats),
                     !.lons = Some(ret_grid_scalar_2d.lons),
                     !.user_element_name = ret_grid_scalar_2d.userEleName]
            row_count == s2.lat_count
            col_count == s2.lon_count
            a == np_reshape(ret_grid_scalar_2d.data, row_count, col_count)
        IN  IF ~a.ok THEN Raised(s2, "ValueError")
            ELSE Returned([s2 EXCEPT !.data = Some(a.val)])

---------------------------------------------------------------------------
(* The parsed messages a load may be handed *)

ErrorCodes == {0, 500}

Dims == -1..MaxDim

FlatSeqs == {[i \in 1..n |-> 10 + i] : n \in 0..MaxLen}

ExplicitLats == {<<>>, <<100, 205>>}

ExplicitLons == {<<>>, <<300, 310>>}

PbRequestInfo(code, rows, cols) ==
    [errorCode     |-> code,
     errorMessage  |-> IF code = 0 THEN "" ELSE "invalid params",
     requestElems  |-> "Station_Id_C,TEM",
     requestParams |-> "times=20200101000000",
     requestTime   |-> "2020-01-01 00:00:00",
     responseTime  |-> "2020-01-01 00:00:01",
     rowCount      |-> rows,
     takeTime      |-> 12,
     colCount      |-> cols]

PbFileInfo(n) ==
    [fileName   |-> IF n = 1 THEN "a.grb" ELSE "b.grb",
     savePath   |-> "/data",
     suffix     |-> "grb",
     size       |-> "1024",
     fileUrl    |-> "http://host/f",
     imgBase64  |-> "",
     attributes |-> <<"x">>]

\* Messages of a successful request vary in every field a decoder reads; an
\* error message carries either no payload at all or a full one.

RetArray2D ==
    {[request |-> PbRequestInfo(0, rows, cols), elementNames |-> names, data |-> d] :
        rows \in Dims, cols \in Dims,
        names \in {<<>>, <<"Station_Id_C", "TEM">>}, d \in FlatSeqs}
    \cup
    {[request |-> PbRequestInfo(500, n, n), elementNames |-> names,
      data |-> [i \in 1..(n * n) |-> 10 + i]] :
        n \in {0, MaxDim}, names \in {<<>>, <<"Station_Id_C", "TEM">>}}

RetDataBlock ==
    {[request |-> PbRequestInfo(code, 0, 0), dataName |-> name, byteArray |-> bytes] :
        code \in ErrorCodes, name \in {"", "a.grb"}, bytes \in {<<>>, <<71, 82>>}}

RetFilesInfo ==
    {[request |-> PbRequestInfo(code, Len(files), 0), fileInfos |-> files] :
        code \in ErrorCodes,
        files \in {<<>>, <<PbFileInfo(1)>>, <<PbFileInfo(1), PbFileInfo(2)>>}}

PbGrid(code, rows, nlat, nlon, lats, lons) ==
    [request |-> PbRequestInfo(code, rows, 0),
     startLat |-> 0, startLon |-> 600, endLat |-> 100, endLon |-> 800,
     latCount |-> nlat, lonCount |-> nlon, latStep |-> 50, lonStep |-> 100,
     lats |-> lats, lons |-> lons]

RetGridArray2D ==
    {PbGrid(0, rows, nlat, nlon, lats, lons) @@
     [units |-> "K", userEleName |-> "TEM", data |-> d] :
        rows \in Dims, nlat \in {-1, MaxDim}, nlon \in {MaxDim},
        lats \in ExplicitLats, lons \in ExplicitLons, d \in FlatSeqs}
    \cup
    {PbGrid(500, n, n, n, lats, lats) @@
     [units |-> "K", userEleName |-> "TEM", data |-> [i \in 1..(n * n) |-> 10 + i]] :
        n \in {0, MaxDim}, lats \in ExplicitLats}

\* u and v sequences of the same length, or v one element short
WindPairs ==
    {uv \in FlatSeqs \X FlatSeqs : Len(uv[2]) \in {Len(uv[1]) - 1, Len(uv[1])}}

RetGridVector2D ==
    {PbGrid(0, 0, nlat, nlon, lats, <<300, 310>>) @@
     [u_EleName |-> "WIU", v_EleName |-> "WIV", u_datas |-> uv[1], v_data2 |-> uv[2]] :
        nlat \in Dims, nlon \in {-1, MaxDim}, lats \in ExplicitLats, uv \in WindPairs}
    \cup
    {PbGrid(500, 0, n, n, lats, lats) @@
     [u_EleName |-> "WIU", v_EleName |-> "WIV",
      u_datas |-> [i \in 1..(n * n) |-> 10 + i],
      v_data2 |-> [i \in 1..(n * n) |-> 10 + i]] :
        n \in {0, MaxDim}, lats \in ExplicitLats}

RetGridScalar2D ==
    {PbGrid(0, MaxDim, nlat, nlon, lats, lons) @@
     [units |-> "K", userEleName |-> "TEM", data |-> d] :
        nlat \in Dims, nlon \in {-1, MaxDim},
        lats \in ExplicitLats, lons \in ExplicitLons, d \in FlatSeqs}
    \cup
    {PbGrid(500, n, n, n, lats, lats) @@
     [units |-> "K", userEleName |-> "TEM", data |-> [i \in 1..(n * n) |-> 10 + i]] :
        n \in {0, MaxDim}, lats \in ExplicitLats}

Kinds == {"Array2D", "DataBlock", "GridArray2D", "FilesInfo", "GridVector2D",
          "GridScalar2D"}

\* cls.protobuf_object_type: the messages of the class's protobuf type
Messages(k) ==
    CASE k = "Array2D"      -> RetArray2D
      [] k = "DataBlock"    -> RetDataBlock
      [] k = "GridArray2D"  -> RetGridArray2D
      [] k = "FilesInfo"    -> RetFilesInfo
      [] k = "GridVector2D" -> RetGridVector2D
      [] k = "GridScalar2D" -> RetGridScalar2D

\* cls(): every constructor argument at its default
Construct(k) ==
    CASE k = "Array2D"      -> Array2D_init
      [] k = "DataBlock"    -> DataBlock_init
      [] k = "GridArray2D"  -> GridArray2D_init
      [] k = "FilesInfo"    -> FilesInfo_init
      [] k = "GridVector2D" -> GridVector2D_init
      [] k = "GridScalar2D" -> GridScalar2D_init

\* self.load_from_protobuf_content(content), dispatched on the class: the
\* content is parsed into the class's message, which load_from_protobuf_object
\* then takes apart.
load_from_protobuf_content(k, self, message) ==
    CASE k = "Array2D"      -> Array2D_load_from_protobuf_object(self, message)
      [] k = "DataBlock"    -> DataBlock_load_from_protobuf_object(self, message)
      [] k = "GridArray2D"  -> GridArray2D_load_from_protobuf_object(self, message)
      [] k = "FilesInfo"    -> FilesInfo_load_from_protobuf_object(self, message)
      [] k = "GridVector2D" -> GridVector2D_load_from_protobuf_object(self, message)
      [] k = "GridScalar2D" -> GridScalar2D_load_from_protobuf_object(self, message)

---------------------------------------------------------------------------
(* The state machine *)

Init ==
    /\ kind \in Kinds
    /\ obj = Construct(kind)
    /\ env = None
    /\ op = "__init__"
    /\ status = "new"
    /\ loads = 0
    /\ out = None

\* cls.create_from_protobuf(content): constructs the object and applies the
\* first load to it
CreateFromProtobuf ==
    /\ loads = 0
    /\ op = "__init__"
    /\ \E message \in Messages(kind) :
        LET r == load_from_protobuf_content(kind, Construct(kind), message)
        IN  /\ obj' = r.obj
            /\ env' = Some(message)
            /\ status' = r.status
    /\ op' = "load_from_protobuf_content"
    /\ loads' = 1
    /\ out' = None
    /\ UNCHANGED kind

\* obj.load_from_protobuf_content(content) on the object at hand
Load(k) ==
    /\ kind = k
    /\ loads < MaxLoads
    /\ \E message \in Messages(k) :
        LET r == load_from_protobuf_content(k, obj, message)
        IN  /\ obj' = r.obj
            /\ env' = Some(message)
            /\ op' = "load_from_protobuf_content"
            /\ status' = r.status
            /\ loads' = loads + 1
            /\ out' = None
    /\ UNCHANGED kind

LoadArray2D == Load("Array2D")

LoadDataBlock == Load("DataBlock")

LoadGridArray2D == Load("GridArray2D")

LoadFilesInfo == Load("FilesInfo")

LoadGridVector2D == Load("GridVector2D")

LoadGridScalar2D == Load("GridScalar2D")

\* grid.to_xarray() on a GridArray2D that holds a data grid
ToXarray ==
    /\ kind = "GridArray2D"
    /\ ~IsNone(obj.data)
    /\ op # "to_xarray"
    /\ LET r == GridArray2D_to_xarray(obj)
       IN  /\ out' = r.field
           /\ status' = r.status
    /\ op' = "to_xarray"
    /\ UNCHANGED <<kind, obj, env, loads>>

Next ==
    \/ CreateFromProtobuf
    \/ LoadArray2D
    \/ LoadDataBlock
    \/ LoadGridArray2D
    \/ LoadFilesInfo
    \/ LoadGridVector2D
    \/ LoadGridScalar2D
    \/ ToXarray

Spec == Init /\ [][Next]_vars

---------------------------------------------------------------------------
(* Vocabulary of the properties *)

\* The last call on the object was a load; Msg is the message it was handed.
Loaded == op = "load_from_protobuf_content"

Msg == Val(env)

\* The load was applied to an object fresh from its constructor.
FirstLoad == Loaded /\ loads = 1

Succeeded == Loaded /\ Msg.request.errorCode = 0

\* Every attribute of the object but its metadata.
PayloadOf(o) == [f \in (DOMAIN o) \ {"request"} |-> o[f]]

PayloadAtDefault == PayloadOf(obj) = PayloadOf(Construct(kind))

\* n / rows by the definition of truncated division, for rows # 0
DerivedCols(n, rows) ==
    CHOOSE q \in -n..n :
        /\ Abs(q) * Abs(rows) <= n
        /\ n < (Abs(q) + 1) * Abs(rows)
        /\ q * rows >= 0

Divides(rows, n) == \E q \in -n..n : q * rows = n

GridKinds == {"GridArray2D", "GridVector2D", "GridScalar2D"}

\* Flattening a grid row-major: its rows one after the other.
RECURSIVE ConcatRows(_, _)
ConcatRows(rows, n) ==
    IF n = 0 THEN <<>> ELSE ConcatRows(rows, n - 1) \o rows[n]

Flatten(a) == ConcatRows(a.rows, a.shape[1])

---------------------------------------------------------------------------
(* C1 *)

\* C1: decoding a message with error_code # 0 into a freshly constructed
\* object of any class leaves every payload attribute at its constructor
\* default, whatever payload the message carries.
C1_ErrorDecodeLeavesPayloadDefault ==
    (FirstLoad /\ Msg.request.errorCode # 0) => PayloadAtDefault

---------------------------------------------------------------------------
(* C2 *)

\* C2: an Array2D decode with error_code = 0 derives col_count as
\* len(data) / row_count, and when that differs from the declared colCount
\* the decode raises (the assertion) instead of returning a data grid.
C2_ColumnMismatchFails ==
    (kind = "Array2D" /\ Succeeded /\ Msg.request.rowCount # 0) =>
        LET derived == DerivedCols(Len(Msg.data), Msg.request.rowCount)
        IN  /\ obj.col_count = derived
            /\ derived # Msg.request.colCount =>
                   /\ status = "AssertionError"
                   /\ FirstLoad => IsNone(obj.data)

\* 4 elements in 2 rows are 2 columns; the message declares 1.
C2_Witness ==
    /\ kind = "Array2D" /\ Succeeded
    /\ Msg.request.rowCount = 2 /\ Len(Msg.data) = 4 /\ Msg.request.colCount = 1
    /\ obj.col_count = 2
    /\ status = "AssertionError"

---------------------------------------------------------------------------
(* C3 *)

\* C3: an Array2D decode with error_code = 0 that returns normally leaves
\* row_count * col_count = len(data) and a data grid of shape
\* (row_count, col_count); when len(data) is not a multiple of the declared
\* row count the decode raises, also when the truncated quotient equals the
\* declared column count.
C3_ArrayShapeInvariant ==
    (kind = "Array2D" /\ Succeeded) =>
        /\ status = "ok" =>
               /\ obj.row_count = Msg.request.rowCount
               /\ obj.row_count * obj.col_count = Len(Msg.data)
               /\ ~IsNone(obj.data)
               /\ Val(obj.data).shape = <<obj.row_count, obj.col_count>>
               /\ Len(Val(obj.data).rows) = obj.row_count
               /\ \A r \in 1..obj.row_count :
                      Len(Val(obj.data).rows[r]) = obj.col_count
        /\ ~Divides(Msg.request.rowCount, Len(Msg.data)) => status # "ok"

\* 3 elements in 2 rows: the truncated quotient 1 is the declared column
\* count, the assertion passes and the reshape raises.
C3_Witness ==
    /\ kind = "Array2D" /\ Succeeded
    /\ Msg.request.rowCount = 2 /\ Len(Msg.data) = 3 /\ Msg.request.colCount = 1
    /\ obj.col_count = 1
    /\ status = "ValueError"

\* A decode that returns: 4 elements as 2 rows of 2.
C3_Returns ==
    /\ kind = "Array2D" /\ Succeeded /\ status = "ok"
    /\ Val(obj.data).shape = <<2, 2>>

---------------------------------------------------------------------------
(* C4 *)

\* C4: a GridArray2D or GridScalar2D decode with error_code = 0 of a message
\* with no explicit coordinate list for an axis leaves that axis as the
\* count values start + i * step, i in 0..count-1; for latitude and for
\* longitude.
C4_AbsentAxisSynthesized ==
    (kind \in {"GridArray2D", "GridScalar2D"} /\ Succeeded /\ status = "ok") =>
        /\ Msg.lats = <<>> =>
               obj.lats = Some(SynthAxis(Msg.startLat, Msg.latStep, Msg.latCount))
        /\ Msg.lons = <<>> =>
               obj.lons = Some(SynthAxis(Msg.startLon, Msg.lonStep, Msg.lonCount))

---------------------------------------------------------------------------
(* C5 *)

\* C5: a grid decode with error_code = 0 of a message with a non-empty
\* explicit coordinate list for an axis leaves that axis as exactly that
\* list, whatever start, step and count are; latitude from lats, longitude
\* from lons.
C5_ExplicitAxisKept ==
    (kind \in GridKinds /\ Succeeded) =>
        /\ Msg.lats # <<>> => obj.lats = Some(Msg.lats)
        /\ Msg.lons # <<>> => obj.lons = Some(Msg.lons)

\* Both lists explicit and of 2 elements, with a latitude count of -1.
C5_Witness ==
    /\ kind = "GridArray2D" /\ Succeeded /\ status = "ok"
    /\ Msg.lats = <<100, 205>> /\ Msg.lons = <<300, 310>>
    /\ Msg.latCount = -1
    /\ obj.lats = Some(<<100, 205>>) /\ obj.lons = Some(<<300, 310>>)

---------------------------------------------------------------------------
(* C6 *)

\* C6: a GridVector2D decode with error_code = 0 that returns normally
\* leaves u and v with the shape (lat_count, lon_count) of the declared
\* counts, and raises when u or v does not hold lat_count * lon_count
\* elements.
C6_VectorShapeIsDeclared ==
    (kind = "GridVector2D" /\ Succeeded) =>
        /\ status = "ok" =>
               /\ Val(obj.u_data).shape = <<Msg.latCount, Msg.lonCount>>
               /\ Val(obj.v_data).shape = <<Msg.latCount, Msg.lonCount>>
        /\ (\/ Len(Msg.u_datas) # Msg.latCount * Msg.lonCount
            \/ Len(Msg.v_data2) # Msg.latCount * Msg.lonCount) => status # "ok"

\* What the code does guarantee: C6 for declared counts that are not negative.
VectorShapeIsDeclaredForCountsFromZero ==
    (kind = "GridVector2D" /\ Succeeded /\ Msg.latCount >= 0 /\ Msg.lonCount >= 0) =>
        /\ status = "ok" =>
               /\ Val(obj.u_data).shape = <<Msg.latCount, Msg.lonCount>>
               /\ Val(obj.v_data).shape = <<Msg.latCount, Msg.lonCount>>
        /\ (\/ Len(Msg.u_datas) # Msg.latCount * Msg.lonCount
            \/ Len(Msg.v_data2) # Msg.latCount * Msg.lonCount) => status # "ok"

---------------------------------------------------------------------------
(* C7 *)

\* C7: a scalar-grid decode (GridArray2D, GridScalar2D) with error_code = 0
\* reshapes the data into (row_count, len(data) / row_count), row_count the
\* metadata's declared row count, not into lat_count x lon_count.  Stated
\* for messages that carry data and declare counts from zero, so that
\* nothing rests on a dimension numpy infers.
C7_ScalarGridShapeDerived ==
    (kind \in {"GridArray2D", "GridScalar2D"} /\ Succeeded /\ status = "ok"
        /\ Len(Msg.data) > 0 /\ Msg.latCount >= 0 /\ Msg.lonCount >= 0) =>
        /\ Val(obj.data).shape[1] = Msg.request.rowCount
        /\ Val(obj.data).shape[2] = DerivedCols(Len(Msg.data), Msg.request.rowCount)

\* C7, amended: a GridArray2D decode with error_code = 0 that returns has
\* reshaped the data into (row_count, len(data) / row_count) from the
\* metadata's row count, whatever lat_count and lon_count are; a GridScalar2D
\* decode reshapes into (lat_count, lon_count), a negative count standing for
\* the dimension inferred from the length.
C7_ShapePerClass ==
    /\ (kind = "GridArray2D" /\ Succeeded /\ status = "ok") =>
           /\ Val(obj.data).shape[1] = Msg.request.rowCount
           /\ Val(obj.data).shape[2] =
                  DerivedCols(Len(Msg.data), Msg.request.rowCount)
    /\ (kind = "GridScalar2D" /\ Succeeded /\ status = "ok") =>
           LET shape == Val(obj.data).shape
           IN  /\ shape[1] * shape[2] = Len(Msg.data)
               /\ Msg.latCount >= 0 => shape[1] = Msg.latCount
               /\ Msg.lonCount >= 0 => shape[2] = Msg.lonCount

\* 4 elements, row count 1, counts 2 and 2: GridArray2D makes 1 row of 4.
C7_Witness ==
    /\ kind = "GridArray2D" /\ Succeeded /\ status = "ok"
    /\ Msg.request.rowCount = 1 /\ Msg.latCount = 2 /\ Msg.lonCount = 2
    /\ Val(obj.data).shape = <<1, 4>>

---------------------------------------------------------------------------
(* C8 *)

\* C8: to_xarray on a decoded GridArray2D with a non-empty longitude axis
\* returns a field with dimensions (latitude, longitude) whose longitude
\* coordinate holds the longitude axis and whose latitude coordinate holds
\* the latitude axis.
C8_LongitudeCoordinateIsLonAxis ==
    (kind = "GridArray2D" /\ op = "to_xarray" /\ status = "ok"
        /\ Val(obj.lons) # <<>>) =>
        /\ Val(out).dims = <<"latitude", "longitude">>
        /\ Val(out).longitude = Val(obj.lons)
        /\ Val(obj.lats) # <<>> => Val(out).latitude = Val(obj.lats)

---------------------------------------------------------------------------
(* C9 *)

\* C9: a decode that reshapes a flat sequence of length N by a row count
\* R >= 1 dividing N yields a grid with element (r, c) = flat[r * (N/R) + c]
\* for r < R, c < N/R, and flattening the grid row-major gives the flat
\* sequence back; the Array2D decode returns such a grid whenever the declared
\* column count is N/R.
C9_ReshapeRoundTrip ==
    /\ (kind \in {"Array2D", "GridArray2D"} /\ Succeeded /\ status = "ok") =>
           LET flat == Msg.data
               R    == Msg.request.rowCount
               C    == DerivedCols(Len(flat), R)
               grid == Val(obj.data)
           IN  /\ R >= 1 /\ R * C = Len(flat)
               /\ \A r \in 0..(R - 1) : \A c \in 0..(C - 1) :
                      grid.rows[r + 1][c + 1] = flat[r * C + c + 1]
               /\ Flatten(grid) = flat
    /\ (kind = "Array2D" /\ Succeeded /\ Msg.request.rowCount >= 1
           /\ Msg.request.rowCount * Msg.request.colCount = Len(Msg.data)) =>
           status = "ok"

\* 11, 12, 13, 14 in 2 rows: 11 12 over 13 14.
C9_Witness ==
    /\ kind = "Array2D" /\ Succeeded /\ status = "ok"
    /\ Msg.data = <<11, 12, 13, 14>> /\ Msg.request.rowCount = 2
    /\ Val(obj.data).rows = <<(<<11, 12>>), (<<13, 14>>)>>

---------------------------------------------------------------------------
(* C10 *)

\* C10: in every state reached by loads on one object, metadata with
\* error_code # 0 comes with no payload attribute populated; a successful
\* decode followed by the decode of an error message does not leave the
\* earlier payload next to the error metadata.  Stated for the classes whose
\* decoder returns right after the metadata of an error message (Array2D and
\* DataBlock populate payload from the error message itself, see C1).
C10_ErrorMetadataMeansNoPayload ==
    (kind \in {"GridArray2D", "FilesInfo", "GridVector2D", "GridScalar2D"}
        /\ ~IsNone(obj.request) /\ Val(obj.request).error_code # 0) =>
        PayloadAtDefault

===========================================================================
